---- MODULE Spec2Model ----
(***************************************************************************)
(* A model of cbf/obstacles/obstacles.py: the Ellipse2D obstacle (buffer   *)
(* bookkeeping, partial update, barrier value and its derivatives) and the *)
(* ObstacleList2D collection (validated insertion, reconciliation against  *)
(* a bounding-box snapshot, batch evaluation).                             *)
(*                                                                         *)
(* Numbers are exact: the semi-axes, buffers and coordinates are integers, *)
(* the barrier value and its derivatives are fractions [n, d] (d = 0 is a  *)
(* non-finite float), and theta is counted in quarter turns so that cos    *)
(* and sin are exactly 1, 0 or -1.  Floating-point rounding is not         *)
(* modelled.                                                               *)
(*                                                                         *)
(* Three specifications share the variables: Spec (the collection),        *)
(* SpecEllipse (one ellipse and its mutators) and SpecGrad (the barrier    *)
(* value and its derivatives on constructed ellipses).                     *)
(*                                                                         *)
(* carlaBound: Ellipse2D.fromBoundingBox reads the global name carla, and  *)
(* the module's own import of it (line 14) is commented out, so the read   *)
(* raises NameError unless the host has bound the name in the module.      *)
(* Both environments are initial states of Spec.                           *)
(***************************************************************************)
EXTENDS Integers, Sequences, FiniteSets, TLC

VARIABLES
    ell,          \* SpecEllipse, SpecGrad: the Ellipse2D instance under test
    mapping,      \* Spec: ObstacleList2D.mapping, a dict in insertion order
    carlaBound,   \* whether the name `carla` is bound in the module's globals
    created,      \* history: the keys whose value the last call constructed
    op,           \* the last call made: its name and arguments
    err,          \* the exception the last call raised, or "none"
    warned,       \* whether the last call went through warnings.warn
    ret           \* what the last call returned

vars == <<ell, mapping, carlaBound, created, op, err, warned, ret>>

-----------------------------------------------------------------------------
(* Bounds of the model.                                                     *)

MaxAxis == 2      \* semi-axis and extent arguments range over 1..MaxAxis
MaxBuffer == 1    \* buffer arguments range over 0..MaxBuffer
MaxKey == 2       \* collection keys range over 1..MaxKey

(* Program constant: the object selector of line 24.                        *)
ELLIPSE2D == 0

-----------------------------------------------------------------------------
(* Values.                                                                  *)

Vector2(x, y) == [type |-> "Vector2", x |-> x, y |-> y]

\* a value that is no euclid.Vector2, e.g. the tuple (1, 2)
NotAVector == [type |-> "tuple", x |-> 1, y |-> 2]

IsVector2(v) == v.type = "Vector2"

Axes == 1..MaxAxis
Buffers == 0..MaxBuffer
Thetas == {0, 1}
Centers == {Vector2(0, 0), Vector2(1, 2)}
Points == {Vector2(0, 0), Vector2(2, 1), Vector2(1, 3)}
Keys == 1..MaxKey

None == [type |-> "NoneType"]

\* np.cos and np.sin of k quarter turns
Cos(k) == CASE k % 4 = 0 -> 1 [] k % 4 = 1 -> 0 [] k % 4 = 2 -> -1 [] OTHER -> 0
Sin(k) == CASE k % 4 = 0 -> 0 [] k % 4 = 1 -> 1 [] k % 4 = 2 -> 0 [] OTHER -> -1

\* float arithmetic, exactly: a fraction n/d
Frac(n, d) == [n |-> n, d |-> d]
FInt(i) == Frac(i, 1)
FDiv(x, y) == Frac(x.n * y.d, x.d * y.n)
FMul(x, y) == Frac(x.n * y.n, x.d * y.d)
FAdd(x, y) == Frac(x.n * y.d + y.n * x.d, x.d * y.d)
FSub(x, y) == Frac(x.n * y.d - y.n * x.d, x.d * y.d)
FSq(x) == FMul(x, x)
FFinite(x) == x.d # 0
FEq(x, y) == FFinite(x) /\ FFinite(y) /\ x.n * y.d = y.n * x.d

\* the outcome of a method call: the receiver afterwards, the exception raised,
\* whether a warning was issued, and the value returned
Outcome(self, e, w, r) == [self |-> self, err |-> e, warned |-> w, ret |-> r]

-----------------------------------------------------------------------------
(* class Ellipse2D(Obstacle2DBase).  The fields ua, ub are history: the     *)
(* un-buffered semi-axes last supplied (the code does not store them).  The *)
(* constructor and a bounding box supply them directly; update(a=x) stores  *)
(* x as given, so the un-buffered value it supplies is x less the buffer    *)
(* folded in at that moment.                                                *)

Ellipse2D_init(a, b, center, theta, buffer) ==
    IF ~IsVector2(center)
    THEN Outcome(None, "TypeError", FALSE, None)
    ELSE Outcome([cls |-> "Ellipse2D",
                  center |-> center, theta |-> theta,
                  a |-> a + buffer, b |-> b + buffer,
                  buffer |-> buffer, BUFFER_FLAG |-> TRUE,
                  ua |-> a, ub |-> b],
                 "none", FALSE, None)

\* applyBuffer without its BUFFER_FLAG guard
Ellipse2D_applyBuffer_unguarded(self) ==
    Outcome([self EXCEPT !.a = self.a + self.buffer,
                         !.b = self.b + self.buffer,
                         !.BUFFER_FLAG = TRUE],
            "none", ~self.BUFFER_FLAG, None)

Ellipse2D_applyBuffer(self) ==
    IF ~self.BUFFER_FLAG
    THEN Outcome([self EXCEPT !.a = self.a + self.buffer,
                              !.b = self.b + self.buffer,
                              !.BUFFER_FLAG = TRUE],
                 "none", FALSE, None)
    ELSE Outcome(self, "none", TRUE, None)

Ellipse2D_removeBuffer(self) ==
    IF self.BUFFER_FLAG
    THEN Outcome([self EXCEPT !.a = self.a - self.buffer,
                              !.b = self.b - self.buffer,
                              !.BUFFER_FLAG = FALSE],
                 "none", FALSE, None)
    ELSE Outcome(self, "none", TRUE, None)

\* the buffer currently folded into the stored semi-axes
Folded(self) == IF self.BUFFER_FLAG THEN self.buffer ELSE 0

Has(kw, name) == name \in DOMAIN kw

\* update(a=None, b=None, center=None, theta=None, buffer=None): kw holds the
\* keywords that are not None.  The statements run in the code's order, so a
\* bad center raises after a and b were assigned.
Update_a(self, kw) ==
    IF Has(kw, "a")
    THEN [self EXCEPT !.a = kw.a, !.ua = kw.a - Folded(self)]
    ELSE self

Update_b(self, kw) ==
    IF Has(kw, "b")
    THEN [self EXCEPT !.b = kw.b, !.ub = kw.b - Folded(self)]
    ELSE self

Update_theta(self, kw) ==
    IF Has(kw, "theta") THEN [self EXCEPT !.theta = kw.theta] ELSE self

\* the buffer branch of update, adding the new buffer on top of the old one
Update_buffer_additive(self, kw) ==
    IF Has(kw, "buffer")
    THEN IF self.BUFFER_FLAG
         THEN [self EXCEPT !.a = self.a + kw.buffer,
                           !.b = self.b + kw.buffer,
                           !.buffer = kw.buffer]
         ELSE [self EXCEPT !.buffer = kw.buffer]
    ELSE self

Update_buffer(self, kw) ==
    IF Has(kw, "buffer")
    THEN IF self.BUFFER_FLAG
         THEN [self EXCEPT !.a = self.a - self.buffer + kw.buffer,
                           !.b = self.b - self.buffer + kw.buffer,
                           !.buffer = kw.buffer]
         ELSE [self EXCEPT !.buffer = kw.buffer]
    ELSE self

Ellipse2D_update(self, kw) ==
    LET s2 == Update_b(Update_a(self, kw), kw)
    IN  IF Has(kw, "center") /\ ~IsVector2(kw.center)
        THEN Outcome(s2, "TypeError", FALSE, None)
        ELSE LET s3 == IF Has(kw, "center")
                       THEN [s2 EXCEPT !.center = kw.center]
                       ELSE s2
             IN  Outcome(Update_buffer(Update_theta(s3, kw), kw),
                         "none", FALSE, None)

\* carla.BoundingBox: extent, location, rotation
BoundingBox(ex, ey, lx, ly, yaw) ==
    [extent |-> [x |-> ex, y |-> ey],
     location |-> [x |-> lx, y |-> ly],
     rotation |-> [yaw |-> yaw]]

Ellipse2D_updateByBoundingBox(self, BBox) ==
    LET a == BBox.extent.x
        b == BBox.extent.y
        center == Vector2(BBox.location.x, BBox.location.y)
        theta == BBox.rotation.yaw
        out == Ellipse2D_update(self,
                   [a |-> a, b |-> b, center |-> center, theta |-> theta])
    IN  [out EXCEPT !.self.ua = a, !.self.ub = b]

\* evaluate(p) and its alias f(p)
Ellipse2D_evaluate(self, p) ==
    IF ~IsVector2(p)
    THEN Outcome(self, "TypeError", FALSE, None)
    ELSE LET dx == p.x - self.center.x
             dy == p.y - self.center.y
             ct == Cos(self.theta)
             st == Sin(self.theta)
             eval == FSub(FAdd(FSq(FDiv(FInt(dx * ct + dy * st), FInt(self.a))),
                               FSq(FDiv(FInt(-dx * st + dy * ct), FInt(self.b)))),
                          FInt(1))
         IN  Outcome(self, "none", FALSE, eval)

Ellipse2D_f(self, p) == Ellipse2D_evaluate(self, p)

\* dx with the two semi-axes exchanged
Ellipse2D_dx_swapped(self, p) ==
    IF ~IsVector2(p)
    THEN Outcome(self, "TypeError", FALSE, None)
    ELSE LET xd == p.x - self.center.x
             yd == p.y - self.center.y
             ct == Cos(self.theta)
             st == Sin(self.theta)
             dx_ == FAdd(FMul(FDiv(FInt(2 * ct), FInt(self.b * self.b)),
                              FInt(xd * ct + yd * st)),
                         FMul(FDiv(FInt(-2 * st), FInt(self.a * self.a)),
                              FInt(-xd * st + yd * ct)))
         IN  Outcome(self, "none", FALSE, dx_)

Ellipse2D_dx(self, p) ==
    IF ~IsVector2(p)
    THEN Outcome(self, "TypeError", FALSE, None)
    ELSE LET xd == p.x - self.center.x
             yd == p.y - self.center.y
             ct == Cos(self.theta)
             st == Sin(self.theta)
             dx_ == FAdd(FMul(FDiv(FInt(2 * ct), FInt(self.a * self.a)),
                              FInt(xd * ct + yd * st)),
                         FMul(FDiv(FInt(-2 * st), FInt(self.b * self.b)),
                              FInt(-xd * st + yd * ct)))
         IN  Outcome(self, "none", FALSE, dx_)

Ellipse2D_dy(self, p) ==
    IF ~IsVector2(p)
    THEN Outcome(self, "TypeError", FALSE, None)
    ELSE LET xd == p.x - self.center.x
             yd == p.y - self.center.y
             ct == Cos(self.theta)
             st == Sin(self.theta)
             dy_ == FAdd(FMul(FDiv(FInt(2 * st), FInt(self.a * self.a)),
                              FInt(xd * ct + yd * st)),
                         FMul(FDiv(FInt(2 * ct), FInt(self.b * self.b)),
                              FInt(-xd * st + yd * ct)))
         IN  Outcome(self, "none", FALSE, dy_)

\* Obstacle2DBase.dtheta, which Ellipse2D.dtheta returns
Obstacle2DBase_dtheta(self, p) ==
    IF ~IsVector2(p)
    THEN Outcome(self, "TypeError", FALSE, None)
    ELSE Outcome(self, "none", FALSE, FInt(0))

Ellipse2D_dtheta(self, p) == Obstacle2DBase_dtheta(self, p)

\* matrix([dx, dy, dtheta]): a 3x1 column, here the tuple of its entries
Ellipse2D_gradient(self, p) ==
    IF ~IsVector2(p)
    THEN Outcome(self, "TypeError", FALSE, None)
    ELSE Outcome(self, "none", FALSE,
                 <<Ellipse2D_dx(self, p).ret,
                   Ellipse2D_dy(self, p).ret,
                   Ellipse2D_dtheta(self, p).ret>>)

-----------------------------------------------------------------------------
(* One Ellipse2D and the calls a client makes on it.                        *)

\* the keyword arguments a call of update may carry
UpdateFields == {"a", "b", "center", "theta", "buffer"}

FullKwargs ==
    [a : Axes, b : {MaxAxis}, center : {Vector2(1, 2), NotAVector},
     theta : {1}, buffer : Buffers]

UpdateKwargs == {[k \in S |-> r[k]] : r \in FullKwargs, S \in SUBSET UpdateFields}

BBoxes ==
    {BoundingBox(ex, ey, c.x, c.y, yaw) :
        ex \in Axes, ey \in Axes, c \in Centers, yaw \in Thetas}

\* the rest of the state when a call is made on the ellipse
Called(call, out) ==
    /\ op' = call
    /\ err' = out.err
    /\ warned' = out.warned
    /\ ret' = out.ret
    /\ UNCHANGED <<mapping, carlaBound, created>>

InitEllipse ==
    /\ \E a \in Axes, b \in Axes, c \in Centers, t \in Thetas, buf \in Buffers :
          ell = Ellipse2D_init(a, b, c, t, buf).self
    /\ mapping = <<>>
    /\ carlaBound = FALSE
    /\ created = {}
    /\ op = [name |-> "__init__"]
    /\ err = "none"
    /\ warned = FALSE
    /\ ret = None

\* ell = Ellipse2D(a, b, center, theta, buffer); a raise leaves ell bound as it was
Construct ==
    \E a \in Axes, b \in Axes, c \in {Vector2(0, 0), NotAVector},
       t \in {0}, buf \in Buffers :
        LET out == Ellipse2D_init(a, b, c, t, buf)
        IN  /\ ell' = IF out.err = "none" THEN out.self ELSE ell
            /\ Called([name |-> "__init__", center |-> c], out)

ApplyBuffer ==
    LET out == Ellipse2D_applyBuffer(ell)
    IN  /\ ell' = out.self
        /\ Called([name |-> "applyBuffer"], out)

RemoveBuffer ==
    LET out == Ellipse2D_removeBuffer(ell)
    IN  /\ ell' = out.self
        /\ Called([name |-> "removeBuffer"], out)

Update ==
    \E kw \in UpdateKwargs :
        LET out == Ellipse2D_update(ell, kw)
        IN  /\ ell' = out.self
            /\ Called([name |-> "update", kw |-> kw], out)

UpdateByBoundingBox ==
    \E BBox \in BBoxes :
        LET out == Ellipse2D_updateByBoundingBox(ell, BBox)
        IN  /\ ell' = out.self
            /\ Called([name |-> "updateByBoundingBox", BBox |-> BBox], out)

NextEllipse ==
    \/ Construct
    \/ ApplyBuffer
    \/ RemoveBuffer
    \/ Update
    \/ UpdateByBoundingBox

SpecEllipse == InitEllipse /\ [][NextEllipse]_vars

-----------------------------------------------------------------------------
(* The barrier value and its derivatives, evaluated on constructed ellipses. *)

GradThetas == 0..3

Evaluated(call, out) ==
    /\ ell' = out.self
    /\ Called(call, out)

InitGrad ==
    /\ \E a \in Axes, b \in Axes, c \in Centers, t \in GradThetas, buf \in Buffers :
          ell = Ellipse2D_init(a, b, c, t, buf).self
    /\ mapping = <<>>
    /\ carlaBound = FALSE
    /\ created = {}
    /\ op = [name |-> "__init__"]
    /\ err = "none"
    /\ warned = FALSE
    /\ ret = None

EvalF ==
    \E p \in Points \cup {NotAVector} :
        Evaluated([name |-> "Ellipse2D.f", p |-> p], Ellipse2D_f(ell, p))

EvalDx ==
    \E p \in Points \cup {NotAVector} :
        Evaluated([name |-> "Ellipse2D.dx", p |-> p], Ellipse2D_dx(ell, p))

EvalDy ==
    \E p \in Points \cup {NotAVector} :
        Evaluated([name |-> "Ellipse2D.dy", p |-> p], Ellipse2D_dy(ell, p))

EvalDtheta ==
    \E p \in Points \cup {NotAVector} :
        Evaluated([name |-> "Ellipse2D.dtheta", p |-> p], Ellipse2D_dtheta(ell, p))

EvalGradient ==
    \E p \in Points \cup {NotAVector} :
        Evaluated([name |-> "Ellipse2D.gradient", p |-> p], Ellipse2D_gradient(ell, p))

NextGrad ==
    \/ EvalF
    \/ EvalDx
    \/ EvalDy
    \/ EvalDtheta
    \/ EvalGradient

SpecGrad == InitGrad /\ [][NextGrad]_vars

-----------------------------------------------------------------------------
(* Properties of one Ellipse2D (SpecEllipse).                               *)

\* the fields of the class (ua, ub are history, not fields)
Fields(e) ==
    [a |-> e.a, b |-> e.b, center |-> e.center, theta |-> e.theta,
     buffer |-> e.buffer, BUFFER_FLAG |-> e.BUFFER_FLAG]

\* C5: whenever BUFFER_FLAG is true the stored a, b are the un-buffered
\* semi-axes last supplied plus the buffer, once; whenever it is false they are
\* the un-buffered semi-axes.
C5_BufferFoldedOnce ==
    /\ ell.BUFFER_FLAG => ell.a = ell.ua + ell.buffer /\ ell.b = ell.ub + ell.buffer
    /\ ~ell.BUFFER_FLAG => ell.a = ell.ua /\ ell.b = ell.ub

\* C6: the stored semi-axes stay positive under applyBuffer, removeBuffer,
\* update (positive a, b, non-negative buffer) and updateByBoundingBox
\* (positive extents).
C6_AxesPositive == ell.a > 0 /\ ell.b > 0

\* C7: update with a center that is no Vector2 raises TypeError and leaves
\* a, b, center, theta, buffer and BUFFER_FLAG as they were, whatever else the
\* call supplies.
C7_BadCenterNoMutation ==
    [][(/\ op'.name = "update"
        /\ Has(op'.kw, "center")
        /\ ~IsVector2(op'.kw.center))
       => err' = "TypeError" /\ Fields(ell') = Fields(ell)]_vars

\* C8: applyBuffer on an ellipse whose buffer is applied, and removeBuffer on
\* one whose buffer is removed, warn, raise nothing and change no field.
C8_RedundantToggleNoOp ==
    [][(\/ op'.name = "applyBuffer" /\ ell.BUFFER_FLAG
        \/ op'.name = "removeBuffer" /\ ~ell.BUFFER_FLAG)
       => warned' /\ err' = "none" /\ Fields(ell') = Fields(ell)]_vars

C8_Witness ==
    /\ op.name = "applyBuffer"
    /\ warned
    /\ ell.buffer > 0
    /\ ell.BUFFER_FLAG

\* C9: update with only a buffer sets buffer to the new value and leaves
\* center, theta and BUFFER_FLAG alone; with the buffer applied a - buffer and
\* b - buffer are preserved, with the buffer removed a and b are unchanged.
C9_BufferOnlyUpdate ==
    [][(op'.name = "update" /\ DOMAIN op'.kw = {"buffer"})
       => /\ err' = "none"
          /\ ell'.buffer = op'.kw.buffer
          /\ ell'.center = ell.center
          /\ ell'.theta = ell.theta
          /\ ell'.BUFFER_FLAG = ell.BUFFER_FLAG
          /\ IF ell.BUFFER_FLAG
             THEN /\ ell'.a - ell'.buffer = ell.a - ell.buffer
                  /\ ell'.b - ell'.buffer = ell.b - ell.buffer
             ELSE ell'.a = ell.a /\ ell'.b = ell.b]_vars

C9_Witness ==
    /\ op.name = "update"
    /\ DOMAIN op.kw = {"buffer"}
    /\ ell.BUFFER_FLAG
    /\ ell.buffer > 0
    /\ ell.a = ell.ua + ell.buffer

-----------------------------------------------------------------------------
(* Properties of the derivatives (SpecGrad).                                *)

\* the ellipse with its center moved by (hx, hy)
CenterShifted(e, hx, hy) ==
    [e EXCEPT !.center = Vector2(e.center.x + hx, e.center.y + hy)]

PointShifted(p, hx, hy) == Vector2(p.x + hx, p.y + hy)

\* (f(+h) - f(-h)) / (2h) with h = 1
CentralDifference(fplus, fminus) == FDiv(FSub(fplus, fminus), FInt(2))

\* C3 as stated: dx(p), dy(p) equal the central difference of f in center.x,
\* center.y with p fixed, sign included.
C3_DerivativeInCenter ==
    /\ (op.name = "Ellipse2D.dx" /\ err = "none") =>
          FEq(ret, CentralDifference(Ellipse2D_f(CenterShifted(ell, 1, 0), op.p).ret,
                                     Ellipse2D_f(CenterShifted(ell, -1, 0), op.p).ret))
    /\ (op.name = "Ellipse2D.dy" /\ err = "none") =>
          FEq(ret, CentralDifference(Ellipse2D_f(CenterShifted(ell, 0, 1), op.p).ret,
                                     Ellipse2D_f(CenterShifted(ell, 0, -1), op.p).ret))

\* C3 amended: dx(p), dy(p) equal the central difference of f in the query
\* point's p.x, p.y with the center fixed (minus the derivative in the center).
C3_DerivativeInPoint ==
    /\ (op.name = "Ellipse2D.dx" /\ err = "none") =>
          FEq(ret, CentralDifference(Ellipse2D_f(ell, PointShifted(op.p, 1, 0)).ret,
                                     Ellipse2D_f(ell, PointShifted(op.p, -1, 0)).ret))
    /\ (op.name = "Ellipse2D.dy" /\ err = "none") =>
          FEq(ret, CentralDifference(Ellipse2D_f(ell, PointShifted(op.p, 0, 1)).ret,
                                     Ellipse2D_f(ell, PointShifted(op.p, 0, -1)).ret))

C3_Witness ==
    /\ op.name = "Ellipse2D.dx"
    /\ err = "none"
    /\ ret.n # 0
    /\ ell.theta = 1
    /\ ell.a # ell.b

-----------------------------------------------------------------------------
(* class Obstacle2DBase and the dispatch of a method call on a stored value. *)

Obstacle2DBase_init == [cls |-> "Obstacle2DBase"]

\* f, dx, dy, dtheta of the base class: the type check, then 0
Obstacle2DBase_scalar(self, p) ==
    IF ~IsVector2(p)
    THEN Outcome(self, "TypeError", FALSE, None)
    ELSE Outcome(self, "none", FALSE, FInt(0))

\* matrix(0.0, (3,1))
Obstacle2DBase_gradient(self, p) ==
    IF ~IsVector2(p)
    THEN Outcome(self, "TypeError", FALSE, None)
    ELSE Outcome(self, "none", FALSE, <<FInt(0), FInt(0), FInt(0)>>)

\* value.__class__.__mro__
Mro(cls) ==
    CASE cls = "Ellipse2D" -> <<"Ellipse2D", "Obstacle2DBase", "object">>
      [] cls = "Obstacle2DBase" -> <<"Obstacle2DBase", "object">>
      [] OTHER -> <<cls, "object">>

InMro(name, cls) == \E i \in DOMAIN Mro(cls) : Mro(cls)[i] = name

\* obs.<meth>(p): the method the object's class resolves the name to
CallMethod(obs, meth, p) ==
    CASE obs.cls = "Ellipse2D" ->
           (CASE meth = "f" -> Ellipse2D_f(obs, p)
              [] meth = "dx" -> Ellipse2D_dx(obs, p)
              [] meth = "dy" -> Ellipse2D_dy(obs, p)
              [] meth = "dtheta" -> Ellipse2D_dtheta(obs, p)
              [] meth = "gradient" -> Ellipse2D_gradient(obs, p))
      [] obs.cls = "Obstacle2DBase" ->
           (CASE meth = "gradient" -> Obstacle2DBase_gradient(obs, p)
              [] OTHER -> Obstacle2DBase_scalar(obs, p))
      [] OTHER -> Outcome(obs, "AttributeError", FALSE, None)

-----------------------------------------------------------------------------
(* class ObstacleList2D(MutableMapping).  self.mapping is a dict: here the  *)
(* sequence of its items [key, value] in insertion order.                   *)

KeysOf(m) == {m[i].key : i \in DOMAIN m}

IndexOf(m, key) == CHOOSE i \in DOMAIN m : m[i].key = key

\* self.mapping[key]
DictGet(m, key) == m[IndexOf(m, key)].value

\* self.mapping[key] = value: a key already present keeps its position
DictSet(m, key, value) ==
    IF key \in KeysOf(m)
    THEN [m EXCEPT ![IndexOf(m, key)].value = value]
    ELSE Append(m, [key |-> key, value |-> value])

\* del self.mapping[key]
DictDel(m, key) ==
    LET i == IndexOf(m, key)
    IN  SubSeq(m, 1, i - 1) \o SubSeq(m, i + 1, Len(m))

\* the outcome of a call on the collection; new: the keys it constructed a
\* value for
ListOutcome(m, new, e, r) == [mapping |-> m, created |-> new, err |-> e, ret |-> r]

\* __setitem__ storing whatever it is given
ObstacleList2D_setitem_unchecked(m, key, value) ==
    [mapping |-> DictSet(m, key, value), err |-> "none"]

ObstacleList2D_setitem(m, key, value) ==
    IF ~InMro("Obstacle2DBase", value.cls)
    THEN [mapping |-> m, err |-> "TypeError"]
    ELSE [mapping |-> DictSet(m, key, value), err |-> "none"]

ObstacleList2D_delitem(m, key) ==
    IF key \notin KeysOf(m)
    THEN [mapping |-> m, err |-> "KeyError"]
    ELSE [mapping |-> DictDel(m, key), err |-> "none"]

\* MutableMapping.pop(key): self[key], then del self[key]
ObstacleList2D_pop(m, key) ==
    IF key \notin KeysOf(m)
    THEN [mapping |-> m, err |-> "KeyError", ret |-> None]
    ELSE [mapping |-> ObstacleList2D_delitem(m, key).mapping,
          err |-> "none", ret |-> DictGet(m, key)]

\* MutableMapping.update(data), which __init__ calls too: self[key] = value
\* for each item, stopping at the first that raises; stored counts the items
\* assigned
RECURSIVE MutableMapping_update(_, _, _)
MutableMapping_update(m, data, i) ==
    IF i > Len(data)
    THEN [mapping |-> m, err |-> "none", stored |-> Len(data)]
    ELSE LET set == ObstacleList2D_setitem(m, data[i].key, data[i].value)
         IN  IF set.err # "none"
             THEN [mapping |-> m, err |-> set.err, stored |-> i - 1]
             ELSE MutableMapping_update(set.mapping, data, i + 1)

ObstacleList2D_init(data) == MutableMapping_update(<<>>, data, 1)

\* Ellipse2D.fromBoundingBox(BBox, buffer): line 196 reads the global name
\* carla, whose import at line 14 is commented out
Ellipse2D_fromBoundingBox(BBox, buffer, carla) ==
    IF ~carla
    THEN Outcome(None, "NameError", FALSE, None)
    ELSE LET a == BBox.extent.x
             b == BBox.extent.y
             center == Vector2(BBox.location.x, BBox.location.y)
             theta == BBox.rotation.yaw
         IN  Ellipse2D_init(a, b, center, theta, buffer)

\* self.mapping[key].updateByBoundingBox(bbox): only Ellipse2D defines it
Obstacle_updateByBoundingBox(obs, bbox) ==
    IF obs.cls = "Ellipse2D"
    THEN Ellipse2D_updateByBoundingBox(obs, bbox)
    ELSE Outcome(obs, "AttributeError", FALSE, None)

\* the second loop of updateByBoundingBox: for key in self.mapping.keys(), pop
\* the key when obs_dict lacks it.  The pop changes the dict's size, and the
\* iterator raises RuntimeError when it is next advanced.
RECURSIVE RemoveVanished(_, _, _, _)
RemoveVanished(m, obsKeys, i, new) ==
    IF i > Len(m)
    THEN ListOutcome(m, new, "none", None)
    ELSE IF m[i].key \in obsKeys
         THEN RemoveVanished(m, obsKeys, i + 1, new)
         ELSE ListOutcome(ObstacleList2D_pop(m, m[i].key).mapping, new,
                          "RuntimeError", None)

\* the first loop: for key, bbox in obs_dict.items()
RECURSIVE SyncObserved(_, _, _, _, _, _, _)
SyncObserved(m, items, i, obs_type, buffer, carla, new) ==
    IF i > Len(items)
    THEN RemoveVanished(m, {items[j].key : j \in DOMAIN items}, 1, new)
    ELSE LET key == items[i].key
             bbox == items[i].value
         IN  IF key \in KeysOf(m)
             THEN LET out == Obstacle_updateByBoundingBox(DictGet(m, key), bbox)
                  IN  IF out.err # "none"
                      THEN ListOutcome(m, new, out.err, None)
                      ELSE SyncObserved([m EXCEPT ![IndexOf(m, key)].value = out.self],
                                        items, i + 1, obs_type, buffer, carla, new)
             ELSE IF obs_type = ELLIPSE2D
                  THEN LET made == Ellipse2D_fromBoundingBox(bbox, buffer, carla)
                       IN  IF made.err # "none"
                           THEN ListOutcome(m, new, made.err, None)
                           ELSE LET set == ObstacleList2D_setitem(m, key, made.self)
                                IN  IF set.err # "none"
                                    THEN ListOutcome(m, new, set.err, None)
                                    ELSE SyncObserved(set.mapping, items, i + 1, obs_type,
                                                      buffer, carla, new \cup {key})
                  ELSE SyncObserved(m, items, i + 1, obs_type, buffer, carla, new)

ObstacleList2D_updateByBoundingBox(m, obs_dict, obs_type, buffer, carla) ==
    IF obs_dict.type = "dict"
    THEN SyncObserved(m, obs_dict.items, 1, obs_type, buffer, carla, {})
    ELSE ListOutcome(m, {}, "none", None)

\* cvxopt matrix(0.0, (rows, cols)), indexed from 0
Vector(n) == [i \in 0..(n - 1) |-> FInt(0)]
Matrix(n, k) == [ij \in (0..(n - 1)) \X (0..(k - 1)) |-> FInt(0)]

\* the loop of f, dx, dy, dtheta: out[idx] = obs.<meth>(p); idx = idx + 1
RECURSIVE FillVector(_, _, _, _, _)
FillVector(m, meth, p, idx, out) ==
    IF idx >= Len(m)
    THEN [err |-> "none", ret |-> out]
    ELSE LET r == CallMethod(m[idx + 1].value, meth, p)
         IN  IF r.err # "none"
             THEN [err |-> r.err, ret |-> None]
             ELSE FillVector(m, meth, p, idx + 1, [out EXCEPT ![idx] = r.ret])

ObstacleList2D_f(m, p) == FillVector(m, "f", p, 0, Vector(Len(m)))
ObstacleList2D_dx(m, p) == FillVector(m, "dx", p, 0, Vector(Len(m)))
ObstacleList2D_dy(m, p) == FillVector(m, "dy", p, 0, Vector(Len(m)))
ObstacleList2D_dtheta(m, p) == FillVector(m, "dtheta", p, 0, Vector(Len(m)))

\* df[idx,:] = col.T with the first two entries exchanged
SetRow_swapped(df, idx, col) ==
    [df EXCEPT ![<<idx, 0>>] = col[2], ![<<idx, 1>>] = col[1], ![<<idx, 2>>] = col[3]]

\* df[idx,:] = col.T
SetRow(df, idx, col) ==
    [df EXCEPT ![<<idx, 0>>] = col[1], ![<<idx, 1>>] = col[2], ![<<idx, 2>>] = col[3]]

RECURSIVE FillMatrix(_, _, _, _)
FillMatrix(m, p, idx, df) ==
    IF idx >= Len(m)
    THEN [err |-> "none", ret |-> df]
    ELSE LET r == CallMethod(m[idx + 1].value, "gradient", p)
         IN  IF r.err # "none"
             THEN [err |-> r.err, ret |-> None]
             ELSE FillMatrix(m, p, idx + 1, SetRow(df, idx, r.ret))

ObstacleList2D_gradient(m, p) == FillMatrix(m, p, 0, Matrix(Len(m), 3))

-----------------------------------------------------------------------------------------------------------------------------------------------------
(* One ObstacleList2D and the calls a client makes on it.                   *)

\* what a client stores: Ellipse2D(2, 1, buffer=1), Obstacle2DBase(), or a
\* value of another class, e.g. the int 5
ValueSpecs == {"Ellipse2D", "Obstacle2DBase", "int"}

\* the object the expression constructs
Build(kind) ==
    CASE kind = "Ellipse2D" -> Ellipse2D_init(2, 1, Vector2(0, 0), 0, 1).self
      [] kind = "Obstacle2DBase" -> Obstacle2DBase_init
      [] OTHER -> [cls |-> kind]

Item(key, value) == [key |-> key, value |-> value]

\* dict literals of at most two items
DictsOf(values) ==
    {<<>>}
    \cup {<<Item(k, v)>> : k \in Keys, v \in values}
    \cup {d \in {<<Item(k1, v1), Item(k2, v2)>> :
                    k1 \in Keys, k2 \in Keys, v1 \in values, v2 \in values} :
            d[1].key # d[2].key}

\* the dict literals a collection is constructed from
InitialData == DictsOf({Build("Ellipse2D"), Build("int")})

ListBBoxes == {BoundingBox(1, 1, 1, 2, 1)}
ListBuffers == {0, 1}
ListPoints == {Vector2(2, 1), NotAVector}

Dict(items) == [type |-> "dict", items |-> items]

ObsDicts == {Dict(items) : items \in DictsOf(ListBBoxes)}

\* the rest of the state when a call is made on the collection
ListCalled(call, e, r) ==
    /\ op' = call
    /\ err' = e
    /\ ret' = r
    /\ UNCHANGED <<ell, carlaBound, warned>>

Init ==
    /\ mapping = <<>>
    /\ carlaBound \in BOOLEAN
    /\ created = {}
    /\ ell = None
    /\ op = [name |-> "ObstacleList2D.__init__", data |-> <<>>]
    /\ err = "none"
    /\ warned = FALSE
    /\ ret = None

\* lst = ObstacleList2D(data); a raise leaves lst bound as it was
ListConstruct ==
    \E data \in InitialData :
        LET out == ObstacleList2D_init(data)
        IN  /\ mapping' = IF out.err = "none" THEN out.mapping ELSE mapping
            /\ created' = IF out.err = "none" THEN KeysOf(out.mapping) ELSE {}
            /\ ListCalled([name |-> "ObstacleList2D.__init__", data |-> data],
                          out.err, None)

\* lst.update(data): the items before one that raises stay stored
ListUpdate ==
    \E data \in InitialData :
        LET out == MutableMapping_update(mapping, data, 1)
        IN  /\ mapping' = out.mapping
            /\ created' = {data[i].key : i \in 1..out.stored}
            /\ ListCalled([name |-> "ObstacleList2D.update", data |-> data],
                          out.err, None)

\* lst[key] = value
SetItem ==
    \E key \in Keys, kind \in ValueSpecs :
        LET value == Build(kind)
            out == ObstacleList2D_setitem(mapping, key, value)
        IN  /\ mapping' = out.mapping
            /\ created' = IF out.err = "none" THEN {key} ELSE {}
            /\ ListCalled([name |-> "ObstacleList2D.__setitem__",
                           key |-> key, value |-> value], out.err, None)

\* del lst[key]
DelItem ==
    \E key \in Keys :
        LET out == ObstacleList2D_delitem(mapping, key)
        IN  /\ mapping' = out.mapping
            /\ created' = {}
            /\ ListCalled([name |-> "ObstacleList2D.__delitem__", key |-> key],
                          out.err, None)

\* lst.pop(key)
Pop ==
    \E key \in Keys :
        LET out == ObstacleList2D_pop(mapping, key)
        IN  /\ mapping' = out.mapping
            /\ created' = {}
            /\ ListCalled([name |-> "ObstacleList2D.pop", key |-> key],
                          out.err, out.ret)

\* lst.updateByBoundingBox(obs_dict, ELLIPSE2D, buffer)
Reconcile ==
    \E obs_dict \in ObsDicts \cup {None}, buffer \in ListBuffers :
        LET out == ObstacleList2D_updateByBoundingBox(
                       mapping, obs_dict, ELLIPSE2D, buffer, carlaBound)
        IN  /\ mapping' = out.mapping
            /\ created' = out.created
            /\ ListCalled([name |-> "ObstacleList2D.updateByBoundingBox",
                           obs_dict |-> obs_dict, buffer |-> buffer],
                          out.err, out.ret)

\* a batch call: it reads the collection
Batch(call, out) ==
    /\ UNCHANGED mapping
    /\ created' = {}
    /\ ListCalled(call, out.err, out.ret)

BatchF ==
    \E p \in ListPoints :
        Batch([name |-> "ObstacleList2D.f", p |-> p], ObstacleList2D_f(mapping, p))

BatchDx ==
    \E p \in ListPoints :
        Batch([name |-> "ObstacleList2D.dx", p |-> p], ObstacleList2D_dx(mapping, p))

BatchDy ==
    \E p \in ListPoints :
        Batch([name |-> "ObstacleList2D.dy", p |-> p], ObstacleList2D_dy(mapping, p))

BatchDtheta ==
    \E p \in ListPoints :
        Batch([name |-> "ObstacleList2D.dtheta", p |-> p],
              ObstacleList2D_dtheta(mapping, p))

BatchGradient ==
    \E p \in ListPoints :
        Batch([name |-> "ObstacleList2D.gradient", p |-> p],
              ObstacleList2D_gradient(mapping, p))

Next ==
    \/ ListConstruct
    \/ ListUpdate
    \/ SetItem
    \/ DelItem
    \/ Pop
    \/ Reconcile
    \/ BatchF
    \/ BatchDx
    \/ BatchDy
    \/ BatchDtheta
    \/ BatchGradient

Spec == Init /\ [][Next]_vars

-----------------------------------------------------------------------------
(* Properties of the collection (Spec).                                     *)

IsObstacle(value) == InMro("Obstacle2DBase", value.cls)

ObsKeys(obs_dict) == {obs_dict.items[i].key : i \in DOMAIN obs_dict.items}

\* C1: updateByBoundingBox with an observation mapping completes and leaves
\* the key set equal to the observation keys; a key in both keeps its instance
\* (the call constructs no value for it), a key only in the observations holds
\* a value the call constructed.
C1_ReconcileSyncsKeys ==
    [][(op'.name = "ObstacleList2D.updateByBoundingBox" /\ op'.obs_dict.type = "dict")
       => /\ err' = "none"
          /\ KeysOf(mapping') = ObsKeys(op'.obs_dict)
          /\ \A k \in KeysOf(mapping') : k \in created' <=> k \notin KeysOf(mapping)]_vars

\* C2: after construction, insertion, update, deletion, pop and reconciliation
\* every stored value is of a class derived from Obstacle2DBase, and storing a
\* value that is not raises TypeError and leaves the items as they were.
C2_OnlyObstaclesStored ==
    [][/\ \A i \in DOMAIN mapping' : IsObstacle(mapping'[i].value)
       /\ (/\ op'.name = "ObstacleList2D.update"
           /\ \E i \in DOMAIN op'.data : ~IsObstacle(op'.data[i].value))
              => err' = "TypeError"
       /\ (op'.name = "ObstacleList2D.__setitem__" /\ ~IsObstacle(op'.value))
              => err' = "TypeError" /\ mapping' = mapping
       /\ (/\ op'.name = "ObstacleList2D.__init__"
           /\ \E i \in DOMAIN op'.data : ~IsObstacle(op'.data[i].value))
              => err' = "TypeError" /\ mapping' = mapping]_vars

C2_Witness ==
    /\ op.name = "ObstacleList2D.__setitem__"
    /\ ~IsObstacle(op.value)
    /\ err = "TypeError"
    /\ Len(mapping) = 2

\* the name of the obstacle method a batch call collects
BatchMethod(name) ==
    CASE name = "ObstacleList2D.f" -> "f"
      [] name = "ObstacleList2D.dx" -> "dx"
      [] name = "ObstacleList2D.dy" -> "dy"
      [] name = "ObstacleList2D.dtheta" -> "dtheta"

\* C4: f, dx, dy, dtheta return a vector of length n whose entry i is the i-th
\* obstacle's own value at p, and gradient an n-by-3 matrix whose row i is
\* [dx, dy, dtheta] of the same i-th obstacle.
C4_BatchRowsFollowOrder ==
    /\ (/\ op.name \in {"ObstacleList2D.f", "ObstacleList2D.dx",
                        "ObstacleList2D.dy", "ObstacleList2D.dtheta"}
        /\ err = "none")
          => /\ DOMAIN ret = 0..(Len(mapping) - 1)
             /\ \A i \in DOMAIN mapping :
                   ret[i - 1] = CallMethod(mapping[i].value,
                                           BatchMethod(op.name), op.p).ret
    /\ (op.name = "ObstacleList2D.gradient" /\ err = "none")
          => /\ DOMAIN ret = (0..(Len(mapping) - 1)) \X (0..2)
             /\ \A i \in DOMAIN mapping :
                   /\ ret[<<i - 1, 0>>] = CallMethod(mapping[i].value, "dx", op.p).ret
                   /\ ret[<<i - 1, 1>>] = CallMethod(mapping[i].value, "dy", op.p).ret
                   /\ ret[<<i - 1, 2>>] = CallMethod(mapping[i].value, "dtheta", op.p).ret

C4_Witness ==
    /\ op.name = "ObstacleList2D.gradient"
    /\ err = "none"
    /\ Len(mapping) = 2
    /\ mapping[1].value.cls = "Ellipse2D"
    /\ mapping[2].value.cls = "Ellipse2D"
    /\ ~FEq(ret[<<0, 0>>], ret[<<0, 1>>])
    /\ ~FEq(ret[<<0, 0>>], ret[<<1, 0>>])

\* C10: a second updateByBoundingBox with the same observations and buffer
\* leaves every obstacle's a, b, center, theta, buffer and BUFFER_FLAG as the
\* first call left them.
C10_ReconcileIdempotent ==
    [][(/\ op.name = "ObstacleList2D.updateByBoundingBox"
        /\ op'.name = "ObstacleList2D.updateByBoundingBox"
        /\ op' = op)
       => \A k \in KeysOf(mapping) \cap KeysOf(mapping') :
             DictGet(mapping, k).cls = "Ellipse2D"
                => Fields(DictGet(mapping', k)) = Fields(DictGet(mapping, k))]_vars

====
